---- MODULE Spec2Model ----
(***************************************************************************)
(* Model of the CalTrain station of "Lab3 - Mutex/caltrain.c": one mutex,  *)
(* two condition variables, four counters, one controller thread calling   *)
(* station_load_train and passenger threads calling station_wait_for_train *)
(* followed by station_on_board.  Each action is one step of one thread:   *)
(* taking the mutex, one statement group of a critical section, a          *)
(* pthread_cond_wait (which releases the mutex), or the unlock.            *)
(***************************************************************************)
EXTENDS Integers, FiniteSets, Sequences, TLC

\* ---- bounds of the model ----
PassengerCount == 3     \* passenger threads, each makes one trip
MaxCount == 2           \* largest count passed to station_load_train
MaxTrains == 2          \* number of station_load_train calls explored

Passengers == 1..PassengerCount
Counts == 0..MaxCount

\* thread identities as stored in the mutex owner
Controller == 0
Unlocked == 0 - 1

VARIABLES
    waiting,            \* station->waiting
    seats_available,    \* station->seats_available
    people_to_sit,      \* station->people_to_sit
    boarding,           \* station->boarding
    lock,               \* owner of station->lock, or Unlocked
    pc_ctrl,            \* position of the controller thread
    pc,                 \* pc[p]: position of passenger thread p
    count,              \* argument of the station_load_train call in progress (or of the last one)
    train_no,           \* history: number of station_load_train calls started
    call_waiting,       \* history: waiting as read by the current/last station_load_train call
    claimed_in,         \* history: claimed_in[p] = train_no when p executed line 72, 0 before
    prev_full,          \* history: the call before the current/last one found every passenger thread waiting
    boarded_in          \* history: boarded_in[p] = train_no if p finished station_on_board during a call, 0 otherwise

vars == <<waiting, seats_available, people_to_sit, boarding, lock, pc_ctrl, pc,
          count, train_no, call_waiting, prev_full, claimed_in, boarded_in>>

counters == <<waiting, seats_available, people_to_sit, boarding>>
history == <<train_no, call_waiting, prev_full, claimed_in, boarded_in>>

\* ---- expressions of the source ----

\* variant of line 35 with the comparison reversed (takes the larger value)
Quota_max(w, c) == IF w > c THEN w ELSE c

\* line 35: (station->waiting < count) ? station->waiting : count
Quota(w, c) == IF w < c THEN w ELSE c

\* line 41: loop condition of station_load_train
MoreToBoard == boarding < people_to_sit

\* line 62: loop condition of station_wait_for_train
NoSeat == seats_available = 0

\* variant of line 86 that compares with > instead of ==
FullyBoarded_gt == boarding > people_to_sit

\* line 86: condition of the all_boarded broadcast
FullyBoarded == boarding = people_to_sit

\* the controller is inside station_load_train (between taking the lock and the unlock)
InCall == pc_ctrl # "idle"

\* variant of line 38 with pthread_cond_signal: a single blocked passenger
\* (here the one with the lowest number) becomes runnable
BroadcastTrainArrived_signal ==
    LET blocked == {p \in Passengers : pc[p] = "wt_wait"}
    IN  [p \in Passengers |->
            IF p \in blocked /\ \A q \in blocked : p <= q THEN "wt_woken" ELSE pc[p]]

\* pthread_cond_broadcast(&station->train_arrived): every passenger blocked in
\* the pthread_cond_wait of line 65 becomes runnable and must retake the mutex
BroadcastTrainArrived == [p \in Passengers |-> IF pc[p] = "wt_wait" THEN "wt_woken" ELSE pc[p]]

\* pthread_cond_broadcast(&station->all_boarded)
BroadcastAllBoarded == IF pc_ctrl = "lt_wait" THEN "lt_woken" ELSE pc_ctrl

\* variant of station_init without line 16: boarding keeps whatever the
\* memory held (here 0 or 1)
Init_noBoarding ==
    /\ waiting = 0
    /\ seats_available = 0
    /\ people_to_sit = 0
    /\ boarding \in {0, 1}
    /\ lock = Unlocked
    /\ pc_ctrl = "idle"
    /\ pc = [p \in Passengers |-> "idle"]
    /\ count = 0
    /\ train_no = 0
    /\ call_waiting = 0
    /\ prev_full = FALSE
    /\ claimed_in = [p \in Passengers |-> 0]
    /\ boarded_in = [p \in Passengers |-> 0]

\* ---- station_init ----
Init ==
    /\ waiting = 0
    /\ seats_available = 0
    /\ people_to_sit = 0
    /\ boarding = 0
    /\ lock = Unlocked
    /\ pc_ctrl = "idle"
    /\ pc = [p \in Passengers |-> "idle"]
    /\ count = 0
    /\ train_no = 0
    /\ call_waiting = 0
    /\ prev_full = FALSE
    /\ claimed_in = [p \in Passengers |-> 0]
    /\ boarded_in = [p \in Passengers |-> 0]

\* ---- station_load_train ----

\* line 26: pthread_mutex_lock, the call starts with argument c
LoadLock(c) ==
    /\ pc_ctrl = "idle"
    /\ train_no < MaxTrains
    /\ lock = Unlocked
    /\ lock' = Controller
    /\ pc_ctrl' = "lt_set"
    /\ count' = c
    /\ train_no' = train_no + 1
    /\ call_waiting' = waiting
    /\ prev_full' = (train_no >= 1 /\ call_waiting = PassengerCount)
    /\ UNCHANGED <<counters, pc, claimed_in, boarded_in>>

\* lines 29-38: set seats and quota, broadcast train_arrived
LoadSet ==
    /\ pc_ctrl = "lt_set"
    /\ lock = Controller
    /\ seats_available' = count
    /\ people_to_sit' = Quota(waiting, count)
    /\ pc' = BroadcastTrainArrived
    /\ pc_ctrl' = "lt_check"
    /\ UNCHANGED <<waiting, boarding, lock, count, history>>

\* lines 41-44: loop test; pthread_cond_wait releases the mutex and suspends
LoadCheck ==
    /\ pc_ctrl = "lt_check"
    /\ lock = Controller
    /\ IF MoreToBoard
         THEN pc_ctrl' = "lt_wait" /\ lock' = Unlocked
         ELSE pc_ctrl' = "lt_reset" /\ lock' = lock
    /\ UNCHANGED <<counters, pc, count, history>>

\* variant of lines 41-44 with `if` in place of `while`: the woken controller
\* does not test boarding again
LoadReacquire_if ==
    /\ pc_ctrl = "lt_woken"
    /\ lock = Unlocked
    /\ lock' = Controller
    /\ pc_ctrl' = "lt_reset"
    /\ UNCHANGED <<counters, pc, count, history>>

\* line 43: return from pthread_cond_wait, the mutex is retaken first
LoadReacquire ==
    /\ pc_ctrl = "lt_woken"
    /\ lock = Unlocked
    /\ lock' = Controller
    /\ pc_ctrl' = "lt_check"
    /\ UNCHANGED <<counters, pc, count, history>>

\* variant of lines 47-49 without line 47 (boarding is not reset)
LoadReset_keepBoarding ==
    /\ pc_ctrl = "lt_reset"
    /\ lock = Controller
    /\ seats_available' = 0
    /\ people_to_sit' = 0
    /\ pc_ctrl' = "lt_unlock"
    /\ UNCHANGED <<waiting, boarding, lock, pc, count, history>>

\* variant of lines 47-49 without line 48 (seats_available is not reset)
LoadReset_keepSeats ==
    /\ pc_ctrl = "lt_reset"
    /\ lock = Controller
    /\ boarding' = 0
    /\ people_to_sit' = 0
    /\ pc_ctrl' = "lt_unlock"
    /\ UNCHANGED <<waiting, seats_available, lock, pc, count, history>>

\* lines 47-49: reset for the next train
LoadReset ==
    /\ pc_ctrl = "lt_reset"
    /\ lock = Controller
    /\ boarding' = 0
    /\ seats_available' = 0
    /\ people_to_sit' = 0
    /\ pc_ctrl' = "lt_unlock"
    /\ UNCHANGED <<waiting, lock, pc, count, history>>

\* line 51: pthread_mutex_unlock, the call returns
LoadUnlock ==
    /\ pc_ctrl = "lt_unlock"
    /\ lock = Controller
    /\ lock' = Unlocked
    /\ pc_ctrl' = "idle"
    /\ UNCHANGED <<counters, pc, count, history>>

\* ---- station_wait_for_train ----

\* line 56: pthread_mutex_lock
WaitLock(p) ==
    /\ pc[p] = "idle"
    /\ lock = Unlocked
    /\ lock' = p
    /\ pc' = [pc EXCEPT ![p] = "wt_inc"]
    /\ UNCHANGED <<counters, pc_ctrl, count, history>>

\* variant of lines 59-68 with a do-while loop: the arriving passenger
\* suspends on train_arrived before it tests seats_available
WaitInc_thenWait(p) ==
    /\ pc[p] = "wt_inc"
    /\ lock = p
    /\ waiting' = waiting + 1
    /\ pc' = [pc EXCEPT ![p] = "wt_wait"]
    /\ lock' = Unlocked
    /\ UNCHANGED <<seats_available, people_to_sit, boarding, pc_ctrl, count, history>>

\* line 59: station->waiting++
WaitInc(p) ==
    /\ pc[p] = "wt_inc"
    /\ lock = p
    /\ waiting' = waiting + 1
    /\ pc' = [pc EXCEPT ![p] = "wt_check"]
    /\ UNCHANGED <<seats_available, people_to_sit, boarding, lock, pc_ctrl, count, history>>

\* lines 62-68: loop test; pthread_cond_wait releases the mutex and suspends
WaitCheck(p) ==
    /\ pc[p] = "wt_check"
    /\ lock = p
    /\ IF NoSeat
         THEN pc' = [pc EXCEPT ![p] = "wt_wait"] /\ lock' = Unlocked
         ELSE pc' = [pc EXCEPT ![p] = "wt_claim"] /\ lock' = lock
    /\ UNCHANGED <<counters, pc_ctrl, count, history>>

\* variant of lines 62-68 with `if` in place of `while`: the woken passenger
\* does not test seats_available again
WaitReacquire_if(p) ==
    /\ pc[p] = "wt_woken"
    /\ lock = Unlocked
    /\ lock' = p
    /\ pc' = [pc EXCEPT ![p] = "wt_claim"]
    /\ UNCHANGED <<counters, pc_ctrl, count, history>>

\* line 65: return from pthread_cond_wait, the mutex is retaken first
WaitReacquire(p) ==
    /\ pc[p] = "wt_woken"
    /\ lock = Unlocked
    /\ lock' = p
    /\ pc' = [pc EXCEPT ![p] = "wt_check"]
    /\ UNCHANGED <<counters, pc_ctrl, count, history>>

\* variant of lines 72-73 without line 72 (the seat is not consumed)
WaitClaim_noDec(p) ==
    /\ pc[p] = "wt_claim"
    /\ lock = p
    /\ waiting' = waiting - 1
    /\ claimed_in' = [claimed_in EXCEPT ![p] = train_no]
    /\ pc' = [pc EXCEPT ![p] = "wt_unlock"]
    /\ UNCHANGED <<seats_available, people_to_sit, boarding, lock, pc_ctrl, count, train_no,
                   call_waiting, prev_full, boarded_in>>

\* variant of lines 72-73 without line 73 (waiting is not decremented)
WaitClaim_noWaitDec(p) ==
    /\ pc[p] = "wt_claim"
    /\ lock = p
    /\ seats_available' = seats_available - 1
    /\ claimed_in' = [claimed_in EXCEPT ![p] = train_no]
    /\ pc' = [pc EXCEPT ![p] = "wt_unlock"]
    /\ UNCHANGED <<waiting, people_to_sit, boarding, lock, pc_ctrl, count, train_no, call_waiting,
                   prev_full, boarded_in>>

\* lines 72-73: take the seat
WaitClaim(p) ==
    /\ pc[p] = "wt_claim"
    /\ lock = p
    /\ seats_available' = seats_available - 1
    /\ waiting' = waiting - 1
    /\ claimed_in' = [claimed_in EXCEPT ![p] = train_no]
    /\ pc' = [pc EXCEPT ![p] = "wt_unlock"]
    /\ UNCHANGED <<people_to_sit, boarding, lock, pc_ctrl, count, train_no, call_waiting,
                   prev_full, boarded_in>>

\* line 75: pthread_mutex_unlock, the call returns
WaitUnlock(p) ==
    /\ pc[p] = "wt_unlock"
    /\ lock = p
    /\ lock' = Unlocked
    /\ pc' = [pc EXCEPT ![p] = "seated"]
    /\ UNCHANGED <<counters, pc_ctrl, count, history>>

\* ---- station_on_board ----

\* variant of station_on_board without line 80 (the mutex is not taken)
BoardLock_noLock(p) ==
    /\ pc[p] = "seated"
    /\ pc' = [pc EXCEPT ![p] = "ob_inc"]
    /\ UNCHANGED <<counters, lock, pc_ctrl, count, history>>

\* line 80: pthread_mutex_lock
BoardLock(p) ==
    /\ pc[p] = "seated"
    /\ lock = Unlocked
    /\ lock' = p
    /\ pc' = [pc EXCEPT ![p] = "ob_inc"]
    /\ UNCHANGED <<counters, pc_ctrl, count, history>>

\* variant of line 83 that also decrements waiting
BoardInc_decWaiting(p) ==
    /\ pc[p] = "ob_inc"
    /\ lock = p
    /\ boarding' = boarding + 1
    /\ waiting' = waiting - 1
    /\ pc' = [pc EXCEPT ![p] = "ob_signal"]
    /\ UNCHANGED <<seats_available, people_to_sit, lock, pc_ctrl, count, history>>

\* line 83: station->boarding++
BoardInc(p) ==
    /\ pc[p] = "ob_inc"
    /\ lock = p
    /\ boarding' = boarding + 1
    /\ pc' = [pc EXCEPT ![p] = "ob_signal"]
    /\ UNCHANGED <<waiting, seats_available, people_to_sit, lock, pc_ctrl, count, history>>

\* lines 86-90: broadcast all_boarded when the quota is reached
BoardSignal(p) ==
    /\ pc[p] = "ob_signal"
    /\ lock = p
    /\ pc_ctrl' = IF FullyBoarded THEN BroadcastAllBoarded ELSE pc_ctrl
    /\ pc' = [pc EXCEPT ![p] = "ob_unlock"]
    /\ UNCHANGED <<counters, lock, count, history>>

\* line 92: pthread_mutex_unlock, the call returns
BoardUnlock(p) ==
    /\ pc[p] = "ob_unlock"
    /\ lock = p
    /\ lock' = Unlocked
    /\ pc' = [pc EXCEPT ![p] = "done"]
    /\ boarded_in' = [boarded_in EXCEPT ![p] = IF InCall THEN train_no ELSE 0]
    /\ UNCHANGED <<counters, pc_ctrl, count, train_no, call_waiting, prev_full, claimed_in>>

\* ---- spurious wakeups allowed by pthread_cond_wait ----
SpuriousWakePassenger(p) ==
    /\ pc[p] = "wt_wait"
    /\ pc' = [pc EXCEPT ![p] = "wt_woken"]
    /\ UNCHANGED <<counters, lock, pc_ctrl, count, history>>

SpuriousWakeController ==
    /\ pc_ctrl = "lt_wait"
    /\ pc_ctrl' = "lt_woken"
    /\ UNCHANGED <<counters, lock, pc, count, history>>

ControllerStep ==
    \/ \E c \in Counts : LoadLock(c)
    \/ LoadSet
    \/ LoadCheck
    \/ LoadReacquire
    \/ LoadReset
    \/ LoadUnlock

PassengerStep(p) ==
    \/ WaitLock(p)
    \/ WaitInc(p)
    \/ WaitCheck(p)
    \/ WaitReacquire(p)
    \/ WaitClaim(p)
    \/ WaitUnlock(p)
    \/ BoardLock(p)
    \/ BoardInc(p)
    \/ BoardSignal(p)
    \/ BoardUnlock(p)

Next ==
    \/ ControllerStep
    \/ \E p \in Passengers : PassengerStep(p)
    \/ \E p \in Passengers : SpuriousWakePassenger(p)
    \/ SpuriousWakeController

Spec == Init /\ [][Next]_vars

\* a step inside a critical section, by whichever thread holds the mutex
CriticalStep ==
    \/ LoadSet \/ LoadCheck \/ LoadReset \/ LoadUnlock
    \/ \E p \in Passengers :
         \/ WaitInc(p) \/ WaitCheck(p) \/ WaitClaim(p) \/ WaitUnlock(p)
         \/ BoardInc(p) \/ BoardSignal(p) \/ BoardUnlock(p)

\* a spurious return from pthread_cond_wait
SpuriousStep ==
    \/ SpuriousWakeController
    \/ \E p \in Passengers : SpuriousWakePassenger(p)

\* Fair scheduling of the threads: the thread inside a critical section keeps
\* running, a runnable thread that finds the mutex free takes it, a passenger
\* that returned from station_wait_for_train calls station_on_board, and
\* spurious wakeups stop after finitely many.  Arrivals of passengers and of
\* trains are not forced.
Fairness ==
    /\ WF_vars(CriticalStep)
    /\ WF_vars(LoadReacquire)
    /\ \A p \in Passengers : WF_vars(WaitReacquire(p) \/ BoardLock(p))
    /\ <>[][~SpuriousStep]_vars

FairSpec == Spec /\ Fairness

\* ---- derived quantities used by the properties ----

\* passengers that took a seat (line 72) during call n
ClaimedFor(n) == {p \in Passengers : claimed_in[p] = n}

\* passengers whose station_wait_for_train has returned
Returned == {p \in Passengers : pc[p] \in {"seated", "ob_inc", "ob_signal", "ob_unlock", "done"}}

\* passengers whose station_on_board completed while call n was in progress
BoardedDuring(n) == {p \in Passengers : boarded_in[p] = n}

\* passengers inside the wait loop of station_wait_for_train (lines 62-68):
\* suspended, woken and waiting for the mutex, or re-testing the loop condition
Blocked == {p \in Passengers : pc[p] \in {"wt_wait", "wt_woken", "wt_check"}}

\* ---- C1 ----
\* C1 (capacity): when a station_load_train(count) call is about to return,
\* the number of station_on_board calls completed since it took the lock is
\* exactly min(waiting at the call, count).
CapacityExact ==
    pc_ctrl = "lt_unlock" =>
        Cardinality(BoardedDuring(train_no)) = Quota(call_waiting, count)

\* ---- C2 ----
\* C2 (no double seating): seats_available is never negative.
SeatsNonNegative == seats_available >= 0

\* the last seat of a train is gone while another woken passenger re-tests the loop
SeatsNonNegativeWitness ==
    /\ InCall
    /\ count > 0
    /\ seats_available = 0
    /\ \E p, q \in Passengers :
         p # q /\ claimed_in[p] = train_no /\ pc[q] = "wt_check" /\ claimed_in[q] = 0

\* ---- C3 ----
\* C3: whenever the lock is free, 0 <= boarding <= people_to_sit.
BoardingWithinQuota ==
    lock = Unlocked => (0 <= boarding /\ boarding <= people_to_sit)

\* ---- C4 ----
\* C4 (reset between trains): after a station_load_train call returned and
\* before the next one takes the lock, boarding, seats_available and
\* people_to_sit are all 0 whenever the lock is free.
ResetBetweenTrains ==
    (pc_ctrl = "idle" /\ train_no >= 1 /\ lock = Unlocked) =>
        (boarding = 0 /\ seats_available = 0 /\ people_to_sit = 0)

\* ---- C5 ----
\* C5 (progress): a station_load_train(count) call made with q = min(waiting,
\* count) > 0 leads to at least q station_wait_for_train calls returning with
\* a seat of that train.
ProgressOfWaiters ==
    \A n \in 1..MaxTrains : \A q \in 1..MaxCount :
        (train_no = n /\ pc_ctrl = "lt_check" /\ Quota(call_waiting, count) = q)
            ~> (Cardinality(ClaimedFor(n) \cap Returned) >= q)

\* ---- C6 ----
\* C6: every station_load_train call eventually returns.
LoadTrainReturns == InCall ~> ~InCall

\* a call that had to suspend on all_boarded has returned
LoadTrainReturnsWitness ==
    /\ pc_ctrl = "idle"
    /\ train_no >= 1
    /\ BoardedDuring(train_no) # {}

\* ---- C7 ----
\* C7: once station_load_train has returned, every passenger that claimed a
\* seat during that call has completed station_on_board.
DepartsFullyBoarded ==
    (pc_ctrl = "idle" /\ train_no >= 1) =>
        \A p \in ClaimedFor(train_no) : pc[p] = "done"

\* ---- C8 ----
\* C8 (per-train seat bound): the number of seat claims made since the
\* current (or last) station_load_train(count) call started is at most count.
SeatBound ==
    train_no >= 1 => Cardinality(ClaimedFor(train_no)) <= count

\* every seat of the train is taken and passengers are still waiting
SeatBoundWitness ==
    /\ InCall
    /\ count > 0
    /\ Cardinality(ClaimedFor(train_no)) = count
    /\ waiting > 0
    /\ lock = Unlocked

\* ---- C9 ----
\* the call in progress (or the last one) found every passenger thread waiting
\* and has fewer seats than that: nobody arrives later
FirstLeg ==
    /\ train_no >= 1
    /\ call_waiting = PassengerCount
    /\ count < PassengerCount

\* the call in progress (or the last one) follows such a call and brings the
\* seats for exactly the passengers left behind
SecondLeg ==
    /\ train_no >= 2
    /\ prev_full
    /\ Cardinality(ClaimedFor(train_no - 1)) < PassengerCount
    /\ count = PassengerCount - Cardinality(ClaimedFor(train_no - 1))

ScenarioSafety ==
    /\ FirstLeg =>
          /\ Returned \subseteq ClaimedFor(train_no)
          /\ Cardinality(Returned) <= count
          /\ ~InCall =>
                /\ Cardinality(Returned) = count
                /\ \A p \in Returned : pc[p] = "done"
                /\ Passengers \ Returned = Blocked
                /\ seats_available = 0
    /\ (SecondLeg /\ ~InCall) => \A p \in Passengers : pc[p] = "done"

\* C9 (scenario): with all N passengers waiting and no later arrival,
\* station_load_train(c), c < N, returns after exactly c
\* station_wait_for_train calls returned and boarded while the other N - c
\* stay blocked; the following station_load_train(N - c) makes the remaining
\* calls return and returns only after all of them called station_on_board.
Scenario ==
    /\ []ScenarioSafety
    /\ (FirstLeg /\ InCall) ~> (FirstLeg /\ ~InCall)
    /\ (SecondLeg /\ InCall) ~> (SecondLeg /\ Returned = Passengers)

\* both trains have left: the second one took the passengers left by the first
ScenarioWitness ==
    /\ SecondLeg
    /\ ~InCall
    /\ count >= 1
    /\ Cardinality(ClaimedFor(train_no)) = count
    /\ Cardinality(ClaimedFor(train_no - 1)) >= 1
    /\ \A p \in Passengers : pc[p] = "done"

\* ---- C10 ----
\* C10 (zero-capacity train): a station_load_train(0) call keeps the lock
\* from start to return (it never suspends on all_boarded), waiting is
\* unchanged throughout, and no passenger ever claims a seat of that train.
ZeroCapacity ==
    /\ (InCall /\ count = 0) =>
          /\ lock = Controller
          /\ pc_ctrl \notin {"lt_wait", "lt_woken"}
          /\ waiting = call_waiting
    /\ (train_no >= 1 /\ count = 0) => ClaimedFor(train_no) = {}

\* a zero-capacity call has woken waiting passengers and is about to return
ZeroCapacityWitness ==
    /\ pc_ctrl = "lt_unlock"
    /\ count = 0
    /\ waiting > 0
    /\ \E p \in Passengers : pc[p] = "wt_woken"

\* ---- C11 ----
\* C11 (empty station): a station_load_train(count) call that finds
\* waiting = 0 sets people_to_sit to 0, keeps the lock from start to return
\* (it never suspends on all_boarded), and leaves seats_available = 0, so
\* that no passenger ever claims a seat of that train.
EmptyStation ==
    /\ (InCall /\ call_waiting = 0) =>
          /\ lock = Controller
          /\ pc_ctrl \notin {"lt_wait", "lt_woken"}
          /\ pc_ctrl \in {"lt_check", "lt_reset"} => people_to_sit = 0
    /\ (train_no >= 1 /\ call_waiting = 0) => ClaimedFor(train_no) = {}
    /\ (pc_ctrl = "idle" /\ train_no >= 1 /\ call_waiting = 0) => seats_available = 0

\* a train with seats came to an empty station and left; a passenger that
\* arrived afterwards is suspended
EmptyStationWitness ==
    /\ pc_ctrl = "idle"
    /\ train_no >= 1
    /\ call_waiting = 0
    /\ count > 0
    /\ \E p \in Passengers : pc[p] = "wt_wait"

\* ---- C12 ----
\* line 26 for the calls after the first MaxTrains ones: the controller goes
\* on calling station_load_train, the history keeps numbering them MaxTrains
LoadLockAgain(c) ==
    /\ pc_ctrl = "idle"
    /\ train_no = MaxTrains
    /\ lock = Unlocked
    /\ lock' = Controller
    /\ pc_ctrl' = "lt_set"
    /\ count' = c
    /\ call_waiting' = waiting
    /\ prev_full' = (call_waiting = PassengerCount)
    /\ UNCHANGED <<counters, pc, train_no, claimed_in, boarded_in>>

NextForever ==
    \/ Next
    \/ \E c \in Counts : LoadLockAgain(c)

\* a station_load_train call with count > 0 starts
TrainWithSeats == \E c \in 1..MaxCount : LoadLock(c) \/ LoadLockAgain(c)

\* the controller never stops calling station_load_train; the threads are
\* scheduled fairly and trains with count > 0 arrive again and again
ForeverSpec ==
    /\ Init
    /\ [][NextForever]_vars
    /\ Fairness
    /\ []<><<TrainWithSeats>>_vars

\* passengers inside station_wait_for_train
InWaitForTrain ==
    {p \in Passengers : pc[p] \in {"wt_inc", "wt_check", "wt_wait", "wt_woken", "wt_claim", "wt_unlock"}}

\* C12: while trains with count > 0 keep arriving and every
\* station_load_train call returns, every station_wait_for_train call
\* eventually returns.
EveryWaiterReturns ==
    \A p \in Passengers : (p \in InWaitForTrain) ~> (p \in Returned)

\* a passenger that stayed behind when the explored trains had left has got
\* a seat of a later one
EveryWaiterReturnsWitness ==
    /\ train_no = MaxTrains
    /\ InCall
    /\ Cardinality(ClaimedFor(MaxTrains)) > count
    /\ \E q \in Passengers : claimed_in[q] = MaxTrains /\ pc[q] = "seated"

\* ---- C13 ----
\* C13: a passenger takes a seat and returns from station_wait_for_train
\* only while a station_load_train call with count > 0 is suspended between
\* line 29 and the reset of lines 47-49; a returned passenger therefore got
\* its seat in such a call, and without one nobody returns.
ReturnsOnlyDuringTrain ==
    /\ \A p \in Passengers :
          pc[p] \in {"wt_claim", "wt_unlock"} =>
              (count > 0 /\ pc_ctrl \in {"lt_wait", "lt_woken"})
    /\ \A p \in Returned : claimed_in[p] >= 1
    /\ train_no = 0 => Returned = {}

\* a passenger is about to return while the train is being boarded
ReturnsOnlyDuringTrainWitness ==
    /\ pc_ctrl = "lt_wait"
    /\ count > 0
    /\ \E p \in Passengers : pc[p] = "wt_unlock" /\ claimed_in[p] = train_no

\* ---- C14 ----
\* threads between a pthread_mutex_lock (or a return from pthread_cond_wait)
\* and the next pthread_cond_wait or pthread_mutex_unlock: the only places
\* where the four counters are read or written
CriticalThreads ==
    {p \in Passengers : pc[p] \in {"wt_inc", "wt_check", "wt_claim", "wt_unlock",
                                    "ob_inc", "ob_signal", "ob_unlock"}}
    \cup (IF pc_ctrl \in {"lt_set", "lt_check", "lt_reset", "lt_unlock"} THEN {Controller} ELSE {})

\* threads suspended in pthread_cond_wait
SuspendedThreads ==
    {p \in Passengers : pc[p] = "wt_wait"}
    \cup (IF pc_ctrl = "lt_wait" THEN {Controller} ELSE {})

MutexInvariant ==
    /\ Cardinality(CriticalThreads) <= 1
    /\ CriticalThreads = (IF lock = Unlocked THEN {} ELSE {lock})
    /\ lock \notin SuspendedThreads

\* a step that changes a counter is taken while the mutex is held, by a
\* thread inside its critical section, and does not pass the mutex on
CountersUnderLock ==
    (counters' # counters) =>
        /\ lock # Unlocked
        /\ lock \in CriticalThreads
        /\ lock' = lock

\* C14 (mutual exclusion): at most one thread is inside a critical section,
\* it is the owner of the lock, a suspended thread does not own the lock,
\* and the counters change only in steps of the owner.
MutualExclusion == []MutexInvariant /\ [][CountersUnderLock]_vars

\* a passenger is taking a seat while the controller and another passenger
\* both wait for the mutex
MutualExclusionWitness ==
    /\ pc_ctrl = "lt_woken"
    /\ \E p, q \in Passengers :
         p # q /\ pc[p] = "wt_claim" /\ lock = p /\ pc[q] = "wt_woken"

\* ---- C15 ----
\* C15 (seat isolation): outside the part of station_load_train between
\* line 29 and the reset there is no seat to claim, inside it the free seats
\* never exceed count minus the claims already made during this call, and a
\* passenger takes a seat only while that call is suspended.
SeatIsolation ==
    /\ pc_ctrl \in {"idle", "lt_set", "lt_unlock"} => seats_available = 0
    /\ pc_ctrl \in {"lt_check", "lt_wait", "lt_woken", "lt_reset"} =>
          seats_available <= count - Cardinality(ClaimedFor(train_no))
    /\ \A p \in Passengers : pc[p] = "wt_claim" => pc_ctrl \in {"lt_wait", "lt_woken"}

\* a train left with a seat nobody took, and a passenger that arrived after
\* its return re-tests the loop condition
SeatIsolationWitness ==
    /\ pc_ctrl = "idle"
    /\ train_no >= 1
    /\ call_waiting >= 1
    /\ Cardinality(ClaimedFor(train_no)) < count
    /\ \E p \in Passengers : pc[p] = "wt_check" /\ claimed_in[p] = 0

\* ---- C16 ----
\* between line 35 and the reset, people_to_sit is the smaller of count and
\* the value of waiting that the call read
QuotaIsMin ==
    pc_ctrl \in {"lt_check", "lt_wait", "lt_woken", "lt_reset"} =>
        /\ people_to_sit <= count
        /\ people_to_sit <= call_waiting
        /\ people_to_sit = count \/ people_to_sit = call_waiting

\* only the controller's own steps change people_to_sit
QuotaOnlyByController ==
    (people_to_sit' # people_to_sit) => (lock = Controller /\ pc_ctrl \in {"lt_set", "lt_reset"})

\* C16 (fixed quota): from line 35 until the reset people_to_sit equals
\* min(waiting at the call's start, count), and no passenger step changes
\* it, arrivals during boarding included.
QuotaFixed == []QuotaIsMin /\ [][QuotaOnlyByController]_vars

\* a passenger arrived during boarding: more passengers have been counted in
\* waiting than the call saw
QuotaFixedWitness ==
    /\ pc_ctrl = "lt_wait"
    /\ people_to_sit >= 1
    /\ waiting + Cardinality(ClaimedFor(train_no)) > call_waiting

\* ---- C17 ----
\* a woken passenger re-tests line 62 and, finding no seat, suspends again
\* with the counters untouched; it takes a seat only when there is one
PassengerRechecks ==
    \A p \in Passengers :
        /\ (pc[p] = "wt_woken" /\ pc'[p] # "wt_woken") =>
              (pc'[p] = "wt_check" /\ counters' = counters)
        /\ (pc[p] = "wt_check" /\ NoSeat /\ pc'[p] # "wt_check") =>
              (pc'[p] = "wt_wait" /\ counters' = counters)
        /\ (pc[p] # "wt_unlock" /\ pc'[p] = "wt_unlock") => seats_available > 0

\* a woken controller re-tests line 41 and, with boarding below the quota,
\* suspends again with the counters untouched; it resets only otherwise
ControllerRechecks ==
    /\ (pc_ctrl = "lt_woken" /\ pc_ctrl' # "lt_woken") =>
          (pc_ctrl' = "lt_check" /\ counters' = counters)
    /\ (pc_ctrl = "lt_check" /\ MoreToBoard /\ pc_ctrl' # "lt_check") =>
          (pc_ctrl' = "lt_wait" /\ counters' = counters)
    /\ (pc_ctrl # "lt_unlock" /\ pc_ctrl' = "lt_unlock") => boarding >= people_to_sit

\* the wakeup itself changes no counter
WakeupChangesNothing == SpuriousStep => counters' = counters

\* C17 (spurious wakeups): with pthread_cond_wait returning spuriously at
\* any time, a woken passenger without a seat and a woken controller with
\* boarding below the quota suspend again and change nothing; seats never go
\* negative, the quota stays fixed and the reset happens only once the
\* quota is reached.
SpuriousWakeupSafe ==
    /\ [][PassengerRechecks /\ ControllerRechecks /\ WakeupChangesNothing]_vars
    /\ [](seats_available >= 0 /\ QuotaIsMin)

\* the controller, woken before the quota was reached, is back at line 41
\* while a seated passenger has not boarded yet
SpuriousWakeupSafeWitness ==
    /\ pc_ctrl = "lt_check"
    /\ MoreToBoard
    /\ \E p \in Passengers : pc[p] = "seated" /\ claimed_in[p] = train_no

\* ---- C18 ----
\* C18 (no lost wakeup for passengers): when a station_load_train call is
\* about to announce its seats, every passenger counted in waiting is
\* suspended on train_arrived or already woken, and while a seat is free no
\* passenger is left suspended on train_arrived.
NoLostPassengerWakeup ==
    /\ pc_ctrl = "lt_set" =>
          waiting = Cardinality({p \in Passengers : pc[p] \in {"wt_wait", "wt_woken"}})
    /\ seats_available > 0 => \A p \in Passengers : pc[p] # "wt_wait"

\* a train with seats has woken two passengers that were waiting for it
NoLostPassengerWakeupWitness ==
    /\ pc_ctrl = "lt_wait"
    /\ seats_available > 0
    /\ call_waiting >= 2
    /\ \E p, q \in Passengers : p # q /\ pc[p] = "wt_woken" /\ pc[q] = "wt_woken"

\* ---- C19 ----
\* the controller is suspended with the quota reached only inside the
\* critical section of the station_on_board call that reached it, before
\* its line 86
ControllerNotForgotten ==
    (pc_ctrl = "lt_wait" /\ boarding >= people_to_sit) =>
        \E p \in Passengers : pc[p] = "ob_signal" /\ lock = p /\ boarding = people_to_sit

\* a station_on_board call that finds boarding = people_to_sit at line 86
\* leaves the controller runnable, still holding the lock it took at line 80
BroadcastInSameSection ==
    \A p \in Passengers :
        (pc[p] = "ob_signal" /\ pc'[p] = "ob_unlock" /\ boarding = people_to_sit) =>
            (pc_ctrl' # "lt_wait" /\ lock = p /\ lock' = p)

\* C19 (no lost wakeup for the controller): the controller is never left
\* suspended on all_boarded with boarding >= people_to_sit and no wakeup on
\* its way; the station_on_board call that makes boarding reach
\* people_to_sit broadcasts in the same critical section.
NoLostControllerWakeup == []ControllerNotForgotten /\ [][BroadcastInSameSection]_vars

\* the last boarding passenger has woken the controller and is about to unlock
NoLostControllerWakeupWitness ==
    /\ pc_ctrl = "lt_woken"
    /\ people_to_sit >= 1
    /\ boarding = people_to_sit
    /\ \E p \in Passengers : pc[p] = "ob_unlock" /\ lock = p

\* ---- C20 ----
\* passengers that executed line 59 and not yet line 73
CountedWaiting ==
    {p \in Passengers : pc[p] \in {"wt_check", "wt_wait", "wt_woken", "wt_claim"}}

\* waiting is the number of passengers inside station_wait_for_train
\* without a seat; with the lock free they are all suspended or woken
WaitingCounts ==
    /\ waiting = Cardinality(CountedWaiting)
    /\ waiting >= 0
    /\ lock = Unlocked =>
          waiting = Cardinality({p \in Passengers : pc[p] \in {"wt_wait", "wt_woken"}})

\* the steps of one station_wait_for_train call: line 59 adds 1 to waiting,
\* lines 72-73 take 1 from waiting and 1 from seats_available, the other
\* steps of the call leave both alone
WaitForTrainEffect ==
    \A p \in Passengers :
        /\ (pc[p] = "wt_inc" /\ pc'[p] # "wt_inc") =>
              (waiting' = waiting + 1 /\ seats_available' = seats_available)
        /\ (pc[p] = "wt_claim" /\ pc'[p] # "wt_claim") =>
              (waiting' = waiting - 1 /\ seats_available' = seats_available - 1)
        /\ (pc[p] \in {"idle", "wt_check", "wt_woken", "wt_unlock"} /\ pc'[p] # pc[p]) =>
              (waiting' = waiting /\ seats_available' = seats_available)

\* C20 (waiting accounting): waiting equals the number of passengers that
\* entered station_wait_for_train and have not claimed a seat, and a
\* completed call changes waiting by +1 - 1 = 0 and seats_available by -1.
WaitingAccounting == []WaitingCounts /\ [][WaitForTrainEffect]_vars

\* one passenger has its seat, others are still counted in waiting
WaitingAccountingWitness ==
    /\ lock = Unlocked
    /\ pc_ctrl = "lt_wait"
    /\ waiting >= 2
    /\ \E p \in Passengers : pc[p] = "seated" /\ claimed_in[p] = train_no

\* ---- C21 ----
\* an arriving passenger goes from line 59 to the test of line 62 without
\* releasing the lock, and the test looks at seats_available only: with a
\* free seat the passenger takes it, whether or not the call counted it
SeatGoesToWhoeverTests ==
    \A p \in Passengers :
        /\ (pc[p] = "wt_inc" /\ pc'[p] # "wt_inc") => (pc'[p] = "wt_check" /\ lock' = p)
        /\ (pc[p] = "wt_check" /\ pc'[p] # "wt_check") =>
              pc'[p] = (IF seats_available > 0 THEN "wt_claim" ELSE "wt_wait")

\* C21 (late arrivals can take seats): a passenger that enters
\* station_wait_for_train after line 35 fixed people_to_sit is treated like
\* any other at line 62, so it can take a seat of that train ahead of a
\* passenger that was waiting at the call.
LateArrivalsNotExcluded == [][SeatGoesToWhoeverTests]_vars

\* the train had one seat and found one passenger q waiting; q was woken
\* and has not run since (had it tested line 62 it would have found the
\* seat), p arrived after line 35 and has just taken the only seat
LateArrivalsNotExcludedWitness ==
    /\ pc_ctrl = "lt_wait"
    /\ count = 1
    /\ call_waiting = 1
    /\ seats_available = 0
    /\ waiting = 1
    /\ \E p, q \in Passengers :
         /\ p # q
         /\ pc[p] = "wt_unlock" /\ lock = p /\ ClaimedFor(train_no) = {p}
         /\ pc[q] = "wt_woken"

\* ---- C22 ----
\* a step of the controller inside station_load_train (its wakeup by
\* another thread is not its own step)
LoadTrainStep ==
    pc_ctrl \in {"idle", "lt_set", "lt_check", "lt_woken", "lt_reset", "lt_unlock"} /\ pc_ctrl' # pc_ctrl

\* a step of passenger p inside station_wait_for_train
WaitForTrainStep(p) ==
    pc[p] \in {"idle", "wt_inc", "wt_check", "wt_woken", "wt_claim", "wt_unlock"} /\ pc'[p] # pc[p]

\* a step of passenger p inside station_on_board
OnBoardStep(p) ==
    pc[p] \in {"seated", "ob_inc", "ob_signal", "ob_unlock"} /\ pc'[p] # pc[p]

FrameStep ==
    /\ LoadTrainStep => waiting' = waiting
    /\ \A p \in Passengers :
          /\ WaitForTrainStep(p) => (boarding' = boarding /\ people_to_sit' = people_to_sit)
          /\ OnBoardStep(p) =>
                /\ waiting' = waiting
                /\ seats_available' = seats_available
                /\ people_to_sit' = people_to_sit
                /\ boarding' = (IF pc[p] = "ob_inc" THEN boarding + 1 ELSE boarding)

\* C22 (frame conditions): station_load_train never changes waiting,
\* station_wait_for_train never changes boarding or people_to_sit, and
\* station_on_board adds exactly 1 to boarding and changes nothing else.
FrameConditions == [][FrameStep]_vars

\* all three operations have run: a passenger boarded during the call that
\* has returned, another is still counted in waiting
FrameConditionsWitness ==
    /\ pc_ctrl = "idle"
    /\ train_no >= 1
    /\ waiting >= 1
    /\ \E p \in Passengers : pc[p] = "done" /\ boarded_in[p] = train_no

\* ---- C23 ----
\* C23 (the quota counts only this train's passengers): boarding is 0 when
\* a station_load_train call is about to set people_to_sit, and a
\* station_on_board call that completes during a call belongs to a
\* passenger that took its seat during that same call.
QuotaCountsOwnTrain ==
    /\ pc_ctrl = "lt_set" => boarding = 0
    /\ \A p \in Passengers : boarded_in[p] >= 1 => claimed_in[p] = boarded_in[p]

\* ---- C24 ----
\* C24 (seat conservation): from line 29 of a station_load_train(count)
\* call to its reset, the free seats plus the seats claimed since line 29
\* add up to count.
SeatConservation ==
    pc_ctrl \in {"lt_check", "lt_wait", "lt_woken", "lt_reset"} =>
        seats_available + Cardinality(ClaimedFor(train_no)) = count

\* boarding is under way with the lock free: one seat taken, one still free
SeatConservationWitness ==
    /\ lock = Unlocked
    /\ pc_ctrl = "lt_wait"
    /\ seats_available >= 1
    /\ Cardinality(ClaimedFor(train_no)) >= 1

\* ---- C25 ----
\* station_init has run and no thread has called an operation yet
NothingStarted ==
    /\ pc_ctrl = "idle"
    /\ train_no = 0
    /\ \A p \in Passengers : pc[p] = "idle"

\* C25 (initial state): after station_init and before any other operation
\* the four counters are 0, the lock is free and no thread is suspended on
\* train_arrived or all_boarded.
InitialStation ==
    NothingStarted =>
        /\ waiting = 0 /\ seats_available = 0 /\ people_to_sit = 0 /\ boarding = 0
        /\ lock = Unlocked
        /\ SuspendedThreads = {}
        /\ CriticalThreads = {}

\* the station right after station_init
InitialStationWitness ==
    /\ NothingStarted
    /\ lock = Unlocked
    /\ claimed_in = [p \in Passengers |-> 0]
====
